---------------------------- MODULE Spec2Model ----------------------------
(***************************************************************************)
(* Model of galeaspablo/javascript_datastructures:                         *)
(*   - SkipList (order-statistics skip list with spans), from              *)
(*     src/unnamed/part_000 (identical code in                             *)
(*     src/BST/SkipListMinimalist.js);                                     *)
(*   - MinHeap (binary min-heap with a value -> keys index), from          *)
(*     src/MinHeap.js.                                                     *)
(*                                                                         *)
(* Objects live in an arena: `nodes` maps an object identity to the        *)
(* fields of a SkipListNode.  An identity carries no meaning for the       *)
(* operations, which only read and write fields.  Objects that are no      *)
(* longer reachable from the list are collected, as the JavaScript         *)
(* runtime does.                                                           *)
(***************************************************************************)
EXTENDS Integers, Sequences, FiniteSets, TLC

VARIABLES nodes, head, tail, topRight, levelsCount, itemsCount,
          last, stored, absentDeletes

slVars == <<nodes, head, tail, topRight, levelsCount, itemsCount,
            last, stored, absentDeletes>>

VARIABLES keyToValue, hashmap, hlast, bag

hVars == <<keyToValue, hashmap, hlast, bag>>

\* a running call of SkipList._randomLevel: its local variable level and
\* its position ("idle": no call is running, "loop": at the while test,
\* "done": returned level)
VARIABLES rlLevel, rlPc

rlVars == <<rlLevel, rlPc>>

\* a running traversal, one turn of its while loop per step: the loop of
\* findByRank, or the loop of _findPath that find, findRankOfKey, insert
\* and delete start with
VARIABLE walk

vars == <<slVars, hVars, rlVars, walk>>

(***************************************************************************)
(* Bounds of the model.                                                    *)
(***************************************************************************)
\* keys are the integers 1..MaxKey
MaxKey == 3
\* tower heights drawn for an insert are 1..MaxLevel (a prefix of the
\* range of _randomLevel)
MaxLevel == 2
\* the calls that leave a lasting trace in the counters and spans are
\* bounded: inserts of new keys (counted by itemsCount, which delete never
\* decrements) and deletes of keys that are not stored (counted by
\* absentDeletes) are taken while itemsCount + absentDeletes < MaxItems
MaxItems == 3

\* the values put into the heap are the integers 1..MaxValue
MaxValue == 3
\* MinHeap.insert is taken while the heap holds fewer than MaxHeap values
MaxHeap == 4

\* the ranks findByRank is called with: -MaxNegative .. MaxKey + 1
MaxNegative == 2
Probes == (-MaxNegative)..(MaxKey + 1)

Keys == 1..MaxKey
Values == 1..MaxValue
Payloads == {"a", "b"}

(***************************************************************************)
(* JavaScript values.                                                      *)
(***************************************************************************)
\* the null reference (a node field that holds no SkipListNode)
NULL == <<"null", 0, 0, 0>>
\* the null key of head and tail sentinels
NullKey == 0
\* null data (upper-level nodes, sentinels, and find's "not found")
NullData == "null"
\* the value of a function that ends without a return statement
Undefined == "undefined"
\* findRankOfKey's results: null, or an integer rank
NullRank == [isNull |-> TRUE, rank |-> 0]
RankVal(r) == [isNull |-> FALSE, rank |-> r]

\* new SkipListNode(down, right, key, data, span)
SkipListNode(down, right, key, data, span) ==
    [down |-> down, right |-> right, key |-> key, data |-> data, span |-> span]

\* new PathElement(level, node, rank)
PathElement(level, node, rank) ==
    [level |-> level, node |-> node, rank |-> rank]

\* the value of F at x, with x evaluated once before F uses it
Bind(x, F(_)) == CHOOSE r \in {F(v) : v \in {x}} : TRUE

\* x instanceof SkipListNode
IsNode(x) == x # NULL

\* identity of a newly allocated object: the first identity of its family
\* that no live object has
NewId(N, kind, level, key) ==
    LET free(s) == <<kind, level, key, s>> \notin DOMAIN N
        s0 == CHOOSE s \in 0..Cardinality(DOMAIN N) :
                  free(s) /\ \A t \in 0..(s - 1) : ~free(t)
    IN  <<kind, level, key, s0>>

\* the objects reachable from the set S by down and right references
RECURSIVE Reach(_, _)
Reach(N, S) ==
    Bind((S \cup {N[i].down : i \in S} \cup {N[i].right : i \in S})
         \ {NULL},
         LAMBDA T : IF T = S THEN S ELSE Reach(N, T))

\* garbage collection: keep the objects reachable from the SkipList's fields
Collect(N, roots) ==
    LET R == Reach(N, roots \ {NULL}) IN [i \in R |-> N[i]]

(***************************************************************************)
(* SkipList._findPath / _findInsertPath                                    *)
(***************************************************************************)
\* the while loop of _findPath moving right also onto a node with the key
RECURSIVE FindPathLoop_Le(_, _, _, _, _)
FindPathLoop_Le(N, next, level, rank, key) ==
    IF ~IsNode(next) THEN <<>>
    ELSE LET pe == PathElement(level, next, rank)
             right == N[next].right
         IN  IF N[right].key # NullKey /\ N[right].key <= key
             THEN <<pe>> \o FindPathLoop_Le(N, right, level,
                                            rank + N[next].span, key)
             ELSE IF IsNode(N[next].down)
             THEN <<pe>> \o FindPathLoop_Le(N, N[next].down, level - 1,
                                            rank, key)
             ELSE <<pe>>

\* the while loop of _findPath, from the node next on
RECURSIVE FindPathLoop(_, _, _, _, _)
FindPathLoop(N, next, level, rank, key) ==
    IF ~IsNode(next) THEN <<>>
    ELSE LET pe == PathElement(level, next, rank)
             right == N[next].right
         IN  IF N[right].key # NullKey /\ N[right].key < key
             THEN <<pe>> \o FindPathLoop(N, right, level,
                                         rank + N[next].span, key)
             ELSE IF IsNode(N[next].down)
             THEN <<pe>> \o FindPathLoop(N, N[next].down, level - 1, rank, key)
             ELSE <<pe>>

_findPath(N, hd, lc, key) == FindPathLoop(N, hd, lc - 1, -1, key)

\* an empty slot of Array(levelsCount)
Hole == PathElement(-1, NULL, 0)

\* _findInsertPath keeping the first path element of a level, not the last
_findInsertPath_First(N, hd, lc, key) ==
    Bind(_findPath(N, hd, lc, key), LAMBDA path :
    LET slot(l) ==
            LET is == {i \in 1..Len(path) : path[i].level = l}
            IN  IF is = {} THEN Hole
                ELSE path[CHOOSE i \in is : \A j \in is : i <= j]
    IN  [i \in 1..lc |-> slot(lc - i)])

_findInsertPath(N, hd, lc, key) ==
    Bind(_findPath(N, hd, lc, key), LAMBDA path :
    LET \* insertPath[level] = the last path element written for that level
        slot(l) ==
            LET is == {i \in 1..Len(path) : path[i].level = l}
            IN  IF is = {} THEN Hole
                ELSE path[CHOOSE i \in is : \A j \in is : j <= i]
    IN  \* insertPath.reverse(): index 1 is level lc - 1, index lc is level 0
        [i \in 1..lc |-> slot(lc - i)])

(***************************************************************************)
(* Queries                                                                 *)
(***************************************************************************)
find(N, hd, lc, key) ==
    Bind(_findPath(N, hd, lc, key), LAMBDA path :
    Bind(path[Len(path)], LAMBDA bottomRightInPath :
    Bind(N[bottomRightInPath.node].right, LAMBDA right :
         IF N[right].key = key THEN N[right].data ELSE NullData)))

findRankOfKey(N, hd, lc, key) ==
    Bind(_findPath(N, hd, lc, key), LAMBDA path :
    Bind(path[Len(path)], LAMBDA bottomRightInPath :
    Bind(N[bottomRightInPath.node].right, LAMBDA right :
         IF N[right].key = key THEN RankVal(bottomRightInPath.rank + 1)
         ELSE NullRank)))

\* findByRank's move with the overshoot test made with <= instead of <
FindByRankMove_Le(N, next, rankCounter, rank) ==
    IF rankCounter + N[next].span <= rank /\ N[N[next].right].key # NullKey
    THEN "right"
    ELSE IF IsNode(N[next].down) THEN "down" ELSE "break"

\* findByRank's move with the overshoot test one element too early
FindByRankMove_Early(N, next, rankCounter, rank) ==
    IF rankCounter + N[next].span + 1 < rank
       /\ N[N[next].right].key # NullKey
    THEN "right"
    ELSE IF IsNode(N[next].down) THEN "down" ELSE "break"

\* one turn of the while loop of findByRank: the move it makes
FindByRankMove(N, next, rankCounter, rank) ==
    IF rankCounter + N[next].span < rank /\ N[N[next].right].key # NullKey
    THEN "right"
    ELSE IF IsNode(N[next].down) THEN "down" ELSE "break"

RECURSIVE FindByRankLoop(_, _, _, _)
FindByRankLoop(N, next, rankCounter, rank) ==
    IF ~(rankCounter < rank) THEN next
    ELSE IF FindByRankMove(N, next, rankCounter, rank) = "right"
    THEN FindByRankLoop(N, N[next].right, rankCounter + N[next].span, rank)
    ELSE IF FindByRankMove(N, next, rankCounter, rank) = "down"
    THEN FindByRankLoop(N, N[next].down, rankCounter, rank)
    ELSE next

findByRank(N, hd, rank) ==
    Bind(FindByRankLoop(N, hd, -1, rank), LAMBDA next :
         IF N[N[next].right].key # NullKey THEN N[N[next].right].data
         ELSE Undefined)

(***************************************************************************)
(* SkipList._addLevelsAccordingToNewLevelsCount                            *)
(***************************************************************************)
\* the loop that adds levels with the new head's span set to itemsCount
RECURSIVE AddLevelsLoop_NoPlusOne(_, _, _, _, _)
AddLevelsLoop_NoPlusOne(S, i, numberOfNewLevels, level, ic) ==
    IF ~(i < numberOfNewLevels) THEN S
    ELSE LET tr == NewId(S.nodes, "tail", level, 0)
             N1 == (tr :> SkipListNode(S.topRight, NULL, NullKey, NullData, 0))
                   @@ S.nodes
             hd == NewId(N1, "head", level, 0)
             N2 == (hd :> SkipListNode(S.head, tr, NullKey, NullData, ic))
                   @@ N1
         IN  Bind([nodes |-> N2, head |-> hd, topRight |-> tr],
                  LAMBDA S1 : AddLevelsLoop_NoPlusOne(S1, i + 1,
                                                      numberOfNewLevels,
                                                      level + 1, ic))

\* the for loop of _addLevelsAccordingToNewLevelsCount, from turn i on
RECURSIVE AddLevelsLoop(_, _, _, _, _)
AddLevelsLoop(S, i, numberOfNewLevels, level, ic) ==
    IF ~(i < numberOfNewLevels) THEN S
    ELSE LET tr == NewId(S.nodes, "tail", level, 0)
             N1 == (tr :> SkipListNode(S.topRight, NULL, NullKey, NullData, 0))
                   @@ S.nodes
             hd == NewId(N1, "head", level, 0)
             N2 == (hd :> SkipListNode(S.head, tr, NullKey, NullData, ic + 1))
                   @@ N1
         IN  Bind([nodes |-> N2, head |-> hd, topRight |-> tr],
                  LAMBDA S1 : AddLevelsLoop(S1, i + 1, numberOfNewLevels,
                                            level + 1, ic))

\* _addLevelsAccordingToNewLevelsCount that also lowers levelsCount to a
\* smaller newLevelsCount
_addLevels_SetCount(N, hd, tr, lc, ic, newLevelsCount) ==
    LET numberOfNewLevels == newLevelsCount - lc
        S0 == [nodes |-> N, head |-> hd, topRight |-> tr]
    IN  IF numberOfNewLevels <= 0
        THEN [nodes |-> N, head |-> hd, topRight |-> tr,
              levelsCount |-> lc + numberOfNewLevels]
        ELSE LET S == AddLevelsLoop(S0, 0, numberOfNewLevels, lc, ic)
             IN  [nodes |-> S.nodes, head |-> S.head, topRight |-> S.topRight,
                  levelsCount |-> lc + numberOfNewLevels]

_addLevelsAccordingToNewLevelsCount(N, hd, tr, lc, ic, newLevelsCount) ==
    LET numberOfNewLevels == newLevelsCount - lc
        S0 == [nodes |-> N, head |-> hd, topRight |-> tr]
    IN  IF numberOfNewLevels <= 0
        THEN [nodes |-> N, head |-> hd, topRight |-> tr, levelsCount |-> lc]
        ELSE LET S == AddLevelsLoop(S0, 0, numberOfNewLevels, lc, ic)
             IN  [nodes |-> S.nodes, head |-> S.head, topRight |-> S.topRight,
                  levelsCount |-> lc + numberOfNewLevels]

(***************************************************************************)
(* SkipList.insert                                                         *)
(***************************************************************************)
\* insert's callback with the inserted node's span computed without the + 1
InsertEach_Off(S, pathElement, key, data, newLevelsCount, insertingAtRank) ==
    LET N == S.nodes
        pn == pathElement.node
    IN  IF pathElement.level < newLevelsCount
        THEN LET insertedNode == NewId(N, "node", pathElement.level, key)
                 insertedSpan == N[pn].span
                                 - (insertingAtRank - pathElement.rank)
                 N1 == (insertedNode :>
                          SkipListNode(NULL, N[pn].right, key,
                                       IF pathElement.level = 0
                                       THEN data ELSE NullData,
                                       insertedSpan)) @@ N
                 N2 == [N1 EXCEPT ![pn].right = insertedNode,
                                  ![pn].span = N[pn].span + 1 - insertedSpan]
                 N3 == IF IsNode(S.lastNode)
                       THEN [N2 EXCEPT ![S.lastNode].down = insertedNode]
                       ELSE N2
             IN  [nodes |-> N3, lastNode |-> insertedNode]
        ELSE [nodes |-> [N EXCEPT ![pn].span = N[pn].span + 1],
              lastNode |-> S.lastNode]

\* the callback of insertPath.forEach in insert, applied to one path element;
\* S holds the arena and the callback's captured variable lastNode
InsertEach(S, pathElement, key, data, newLevelsCount, insertingAtRank) ==
    LET N == S.nodes
        pn == pathElement.node
    IN  IF pathElement.level < newLevelsCount
        THEN LET insertedNode == NewId(N, "node", pathElement.level, key)
                 insertedSpan == (N[pn].span + 1)
                                 - (insertingAtRank - pathElement.rank)
                 N1 == (insertedNode :>
                          SkipListNode(NULL, N[pn].right, key,
                                       IF pathElement.level = 0
                                       THEN data ELSE NullData,
                                       insertedSpan)) @@ N
                 N2 == [N1 EXCEPT ![pn].right = insertedNode,
                                  ![pn].span = N[pn].span + 1 - insertedSpan]
                 N3 == IF IsNode(S.lastNode)
                       THEN [N2 EXCEPT ![S.lastNode].down = insertedNode]
                       ELSE N2
             IN  [nodes |-> N3, lastNode |-> insertedNode]
        ELSE [nodes |-> [N EXCEPT ![pn].span = N[pn].span + 1],
              lastNode |-> S.lastNode]

\* insertPath.forEach in insert, from element i on (empty slots are skipped)
RECURSIVE InsertLoop(_, _, _, _, _, _, _)
InsertLoop(S, insertPath, i, key, data, newLevelsCount, insertingAtRank) ==
    IF i > Len(insertPath) THEN S.nodes
    ELSE Bind(IF insertPath[i] = Hole THEN S
              ELSE InsertEach(S, insertPath[i], key, data, newLevelsCount,
                              insertingAtRank),
              LAMBDA S1 : InsertLoop(S1, insertPath, i + 1, key, data,
                                     newLevelsCount, insertingAtRank))

\* insert whose replace branch lacks its return and goes on to link a tower
insert_NoReturn(N, hd, tr, lc, ic, key, data, newLevelsCount) ==
    Bind(_addLevelsAccordingToNewLevelsCount(N, hd, tr, lc, ic,
                                             newLevelsCount), LAMBDA A :
    Bind(_findInsertPath(A.nodes, A.head, A.levelsCount, key),
         LAMBDA insertPath :
    LET bottomRight == insertPath[Len(insertPath)]
        right == A.nodes[bottomRight.node].right
        replaced == A.nodes[right].key = key
        N1 == IF replaced THEN [A.nodes EXCEPT ![right].data = data]
              ELSE A.nodes
    IN  [nodes |-> InsertLoop([nodes |-> N1, lastNode |-> NULL],
                              insertPath, 1, key, data, newLevelsCount,
                              bottomRight.rank + 1),
         head |-> A.head, topRight |-> A.topRight,
         levelsCount |-> A.levelsCount, itemsCount |-> ic + 1,
         replaced |-> replaced]))

\* insert(key, data) with newLevelsCount the value of SkipList._randomLevel()
insert(N, hd, tr, lc, ic, key, data, newLevelsCount) ==
    Bind(_addLevelsAccordingToNewLevelsCount(N, hd, tr, lc, ic,
                                             newLevelsCount), LAMBDA A :
    Bind(_findInsertPath(A.nodes, A.head, A.levelsCount, key),
         LAMBDA insertPath :
    LET bottomRight == insertPath[Len(insertPath)]
        right == A.nodes[bottomRight.node].right
    IN  IF A.nodes[right].key = key
        THEN [nodes |-> [A.nodes EXCEPT ![right].data = data],
              head |-> A.head, topRight |-> A.topRight,
              levelsCount |-> A.levelsCount, itemsCount |-> ic,
              replaced |-> TRUE]
        ELSE [nodes |-> InsertLoop([nodes |-> A.nodes, lastNode |-> NULL],
                                   insertPath, 1, key, data, newLevelsCount,
                                   bottomRight.rank + 1),
              head |-> A.head, topRight |-> A.topRight,
              levelsCount |-> A.levelsCount, itemsCount |-> ic + 1,
              replaced |-> FALSE]))

(***************************************************************************)
(* SkipList.delete                                                         *)
(***************************************************************************)
\* delete's callback that merges the spans but leaves the node linked
DeleteEach_NoUnlink(N, pathElement, key) ==
    LET pn == pathElement.node
        right == N[pn].right
    IN  IF N[right].key = key
        THEN [N EXCEPT ![pn].span = N[pn].span + N[right].span - 1]
        ELSE [N EXCEPT ![pn].span = N[pn].span - 1]

\* delete's callback that leaves the span of a level without the key as it is
DeleteEach_KeepSpan(N, pathElement, key) ==
    LET pn == pathElement.node
        right == N[pn].right
    IN  IF N[right].key = key
        THEN [N EXCEPT ![pn].span = N[pn].span + N[right].span - 1,
                       ![pn].right = N[right].right]
        ELSE N

\* delete's callback that unlinks the node at level 0 only
DeleteEach_Level0Only(N, pathElement, key) ==
    LET pn == pathElement.node
        right == N[pn].right
    IN  IF N[right].key = key /\ pathElement.level = 0
        THEN [N EXCEPT ![pn].span = N[pn].span + N[right].span - 1,
                       ![pn].right = N[right].right]
        ELSE [N EXCEPT ![pn].span = N[pn].span - 1]

\* the callback of insertPath.forEach in delete, applied to one path element
DeleteEach(N, pathElement, key) ==
    LET pn == pathElement.node
        right == N[pn].right
    IN  IF N[right].key = key
        THEN [N EXCEPT ![pn].span = N[pn].span + N[right].span - 1,
                       ![pn].right = N[right].right]
        ELSE [N EXCEPT ![pn].span = N[pn].span - 1]

\* insertPath.forEach in delete, from element i on (empty slots are skipped)
RECURSIVE DeleteLoop(_, _, _, _)
DeleteLoop(N, insertPath, i, key) ==
    IF i > Len(insertPath) THEN N
    ELSE Bind(IF insertPath[i] = Hole THEN N
              ELSE DeleteEach(N, insertPath[i], key),
              LAMBDA M : DeleteLoop(M, insertPath, i + 1, key))

delete(N, hd, lc, key) ==
    Bind(_findInsertPath(N, hd, lc, key),
         LAMBDA insertPath : DeleteLoop(N, insertPath, 1, key))

(***************************************************************************)
(* ValueToKeys (src/MinHeap.js).  hashmap maps each value that is an own    *)
(* property to a Map, held as the sequence of its keys in insertion order. *)
(***************************************************************************)
\* the key that Map.keys().next().value gives for an empty Map (undefined)
UndefinedKey == -1

addValueAndKey(hm, value, key) ==
    IF value \notin DOMAIN hm
    THEN (value :> <<key>>) @@ hm
    ELSE IF \E i \in 1..Len(hm[value]) : hm[value][i] = key
         THEN hm
         ELSE [hm EXCEPT ![value] = Append(@, key)]

deleteValueAndKey(hm, value, key) ==
    [hm EXCEPT ![value] = SelectSeq(@, LAMBDA x : x # key)]

\* threw: this.hashmap[value] is undefined and .keys() raises a TypeError
getOneKeyFromValue(hm, value) ==
    IF value \notin DOMAIN hm THEN [threw |-> TRUE, key |-> UndefinedKey]
    ELSE IF hm[value] = <<>> THEN [threw |-> FALSE, key |-> UndefinedKey]
    ELSE [threw |-> FALSE, key |-> hm[value][1]]

(***************************************************************************)
(* MinHeap (src/MinHeap.js).  A heap H is [keyToValue, hashmap]; the array *)
(* index (key) i of the source is position i + 1 of the sequence.          *)
(***************************************************************************)
\* null, as getMin and extractMin return it for an empty heap
NullValue == 0

\* _swapValuesOfKeys that records the new keys before it drops the old ones
_swapValuesOfKeys_AddFirst(H, firstKey, secondKey) ==
    LET firstValue == H.keyToValue[firstKey + 1]
        secondValue == H.keyToValue[secondKey + 1]
        k1 == [H.keyToValue EXCEPT ![firstKey + 1] = secondValue]
        k2 == [k1 EXCEPT ![secondKey + 1] = firstValue]
        h1 == addValueAndKey(H.hashmap, firstValue, secondKey)
        h2 == addValueAndKey(h1, secondValue, firstKey)
        h3 == deleteValueAndKey(h2, firstValue, firstKey)
        h4 == deleteValueAndKey(h3, secondValue, secondKey)
    IN  [keyToValue |-> k2, hashmap |-> h4]

_swapValuesOfKeys(H, firstKey, secondKey) ==
    LET firstValue == H.keyToValue[firstKey + 1]
        secondValue == H.keyToValue[secondKey + 1]
        k1 == [H.keyToValue EXCEPT ![firstKey + 1] = secondValue]
        k2 == [k1 EXCEPT ![secondKey + 1] = firstValue]
        h1 == deleteValueAndKey(H.hashmap, firstValue, firstKey)
        h2 == deleteValueAndKey(h1, secondValue, secondKey)
        h3 == addValueAndKey(h2, firstValue, secondKey)
        h4 == addValueAndKey(h3, secondValue, firstKey)
    IN  [keyToValue |-> k2, hashmap |-> h4]

_deleteLastKey(H) ==
    LET lastKey == Len(H.keyToValue) - 1
        lastValue == H.keyToValue[lastKey + 1]
    IN  [keyToValue |-> SubSeq(H.keyToValue, 1, lastKey),
         hashmap |-> deleteValueAndKey(H.hashmap, lastValue, lastKey)]

RECURSIVE _bubbleUp(_, _)
_bubbleUp(H, key) ==
    IF key = 0 THEN H
    ELSE LET value == H.keyToValue[key + 1]
             parentKey == (key - 1) \div 2
             parentValue == H.keyToValue[parentKey + 1]
         IN  IF value < parentValue
             THEN Bind(_swapValuesOfKeys(H, key, parentKey),
                       LAMBDA H1 : _bubbleUp(H1, parentKey))
             ELSE H

\* key in this.keyToValue
InArray(ktv, key) == key >= 0 /\ key < Len(ktv)

\* minimumKey with the second child compared to the value at key instead of
\* to the smaller of that value and the first child
BubbleDownMinimumKey_SecondVsValue(ktv, key) ==
    LET value == ktv[key + 1]
        firstChildKey == (key * 2) + 1
        firstIsLess == InArray(ktv, firstChildKey)
                       /\ ktv[firstChildKey + 1] < value
        minimumKey1 == IF firstIsLess THEN firstChildKey ELSE key
        secondChildKey == (key * 2) + 2
    IN  IF InArray(ktv, secondChildKey) /\ ktv[secondChildKey + 1] < value
        THEN secondChildKey
        ELSE minimumKey1

\* minimumKey as _bubbleDown computes it
BubbleDownMinimumKey(ktv, key) ==
    LET value == ktv[key + 1]
        firstChildKey == (key * 2) + 1
        firstIsLess == InArray(ktv, firstChildKey)
                       /\ ktv[firstChildKey + 1] < value
        minimumKey1 == IF firstIsLess THEN firstChildKey ELSE key
        minimumValue1 == IF firstIsLess THEN ktv[firstChildKey + 1] ELSE value
        secondChildKey == (key * 2) + 2
    IN  IF InArray(ktv, secondChildKey)
           /\ ktv[secondChildKey + 1] < minimumValue1
        THEN secondChildKey
        ELSE minimumKey1

RECURSIVE _bubbleDown(_, _)
_bubbleDown(H, key) ==
    Bind(BubbleDownMinimumKey(H.keyToValue, key), LAMBDA minimumKey :
         IF key # minimumKey
         THEN Bind(_swapValuesOfKeys(H, key, minimumKey),
                   LAMBDA H1 : _bubbleDown(H1, minimumKey))
         ELSE H)

\* MinHeap.insert
MinHeap_insert(H, value) ==
    LET ktv == Append(H.keyToValue, value)
        key == Len(ktv) - 1
    IN  _bubbleUp([keyToValue |-> ktv,
                   hashmap |-> addValueAndKey(H.hashmap, value, key)], key)

\* MinHeap.delete; threw: the call raised the TypeError of getOneKeyFromValue
MinHeap_delete(H, value) ==
    Bind(getOneKeyFromValue(H.hashmap, value), LAMBDA got :
    IF got.threw THEN [heap |-> H, threw |-> TRUE]
    ELSE IF got.key = UndefinedKey THEN [heap |-> H, threw |-> FALSE]
    ELSE LET key == got.key
             lastKey == Len(H.keyToValue) - 1
         IN  IF key = lastKey
             THEN [heap |-> _deleteLastKey(H), threw |-> FALSE]
             ELSE Bind(_deleteLastKey(_swapValuesOfKeys(H, key, lastKey)),
                       LAMBDA H1 :
                  Bind(_bubbleUp(H1, key), LAMBDA H2 :
                       [heap |-> _bubbleDown(H2, key), threw |-> FALSE])))

\* MinHeap.extractMin
extractMin(H) ==
    IF ~InArray(H.keyToValue, 0) THEN [heap |-> H, ret |-> NullValue]
    ELSE LET min == H.keyToValue[1]
             lastKey == Len(H.keyToValue) - 1
         IN  Bind(_deleteLastKey(_swapValuesOfKeys(H, 0, lastKey)),
                  LAMBDA H1 : [heap |-> _bubbleDown(H1, 0), ret |-> min])

\* MinHeap.getMin
getMin(H) ==
    IF ~InArray(H.keyToValue, 0) THEN NullValue ELSE H.keyToValue[1]

(***************************************************************************)
(* The SkipList as a state machine                                         *)
(***************************************************************************)
\* the reference map: what a key-to-payload map holds after the same calls
Absent == "absent"

\* new SkipList()
SkipListInit ==
    LET tl == <<"tail", 0, 0, 0>>
        hd == <<"head", 0, 0, 0>>
    IN  /\ nodes = (tl :> SkipListNode(NULL, NULL, NullKey, NullData, 0))
                   @@ (hd :> SkipListNode(NULL, tl, NullKey, NullData, 1))
        /\ tail = tl
        /\ head = hd
        /\ topRight = tl
        /\ levelsCount = 1
        /\ itemsCount = 0
        /\ last = [op |-> "new", key |-> 0, hit |-> FALSE, grew |-> FALSE]
        /\ stored = [k \in Keys |-> Absent]
        /\ absentDeletes = 0

\* a call insert(key, data) whose _randomLevel() returns newLevelsCount
Insert(key, data, newLevelsCount) ==
    /\ (stored[key] = Absent) => itemsCount + absentDeletes < MaxItems
    /\ \E R \in {insert(nodes, head, topRight, levelsCount, itemsCount,
                        key, data, newLevelsCount)} :
        /\ nodes' = R.nodes
        /\ head' = R.head
        /\ topRight' = R.topRight
        /\ levelsCount' = R.levelsCount
        /\ itemsCount' = R.itemsCount
        /\ last' = [op |-> "insert", key |-> key, hit |-> R.replaced,
                    grew |-> newLevelsCount > levelsCount]
        /\ stored' = [stored EXCEPT ![key] = data]
        /\ UNCHANGED <<tail, absentDeletes, hVars, rlVars, walk>>

\* a call delete(key) on a key that is stored
DeleteStored(key) ==
    /\ stored[key] # Absent
    /\ nodes' = Collect(delete(nodes, head, levelsCount, key),
                        {head, tail, topRight})
    /\ last' = [op |-> "delete", key |-> key, hit |-> TRUE, grew |-> FALSE]
    /\ stored' = [stored EXCEPT ![key] = Absent]
    /\ UNCHANGED <<head, tail, topRight, levelsCount, itemsCount,
                   absentDeletes, hVars, rlVars, walk>>

\* a call delete(key) on a key that is not stored
DeleteAbsent(key) ==
    /\ stored[key] = Absent
    /\ itemsCount + absentDeletes < MaxItems
    /\ nodes' = Collect(delete(nodes, head, levelsCount, key),
                        {head, tail, topRight})
    /\ last' = [op |-> "delete", key |-> key, hit |-> FALSE, grew |-> FALSE]
    /\ absentDeletes' = absentDeletes + 1
    /\ UNCHANGED <<head, tail, topRight, levelsCount, itemsCount, stored,
                   hVars, rlVars, walk>>

InsertStep == \E k \in Keys, d \in Payloads, h \in 1..MaxLevel : Insert(k, d, h)
DeleteStoredStep == \E k \in Keys : DeleteStored(k)
DeleteAbsentStep == \E k \in Keys : DeleteAbsent(k)

(***************************************************************************)
(* The MinHeap as a state machine                                          *)
(***************************************************************************)
Heap == [keyToValue |-> keyToValue, hashmap |-> hashmap]

\* the reference multiset: how many times each value is in the heap
BagMin(b) == CHOOSE v \in Values : b[v] > 0 /\ \A w \in Values : b[w] > 0 => v <= w
BagIsEmpty(b) == \A v \in Values : b[v] = 0
BagMinOrNull(b) == IF BagIsEmpty(b) THEN NullValue ELSE BagMin(b)
BagRemove(b, v) == IF v \in Values /\ b[v] > 0 THEN [b EXCEPT ![v] = @ - 1] ELSE b

\* new MinHeap()
MinHeapInit ==
    /\ keyToValue = <<>>
    /\ hashmap = <<>>
    /\ hlast = [op |-> "new", arg |-> 0, ret |-> NullValue,
                expected |-> NullValue, threw |-> FALSE]
    /\ bag = [v \in Values |-> 0]

\* a call insert(value)
HeapInsert(value) ==
    /\ Len(keyToValue) < MaxHeap
    /\ \E H \in {MinHeap_insert(Heap, value)} :
        /\ keyToValue' = H.keyToValue
        /\ hashmap' = H.hashmap
    /\ hlast' = [op |-> "insert", arg |-> value, ret |-> NullValue,
                 expected |-> NullValue, threw |-> FALSE]
    /\ bag' = [bag EXCEPT ![value] = @ + 1]
    /\ UNCHANGED <<slVars, rlVars, walk>>

\* a call extractMin()
HeapExtractMin ==
    /\ \E R \in {extractMin(Heap)} :
        /\ keyToValue' = R.heap.keyToValue
        /\ hashmap' = R.heap.hashmap
        /\ hlast' = [op |-> "extractMin", arg |-> 0, ret |-> R.ret,
                     expected |-> BagMinOrNull(bag), threw |-> FALSE]
    /\ bag' = BagRemove(bag, BagMinOrNull(bag))
    /\ UNCHANGED <<slVars, rlVars, walk>>

\* a call delete(value), of a value that is in the heap or not
HeapDelete(value) ==
    /\ \E R \in {MinHeap_delete(Heap, value)} :
        /\ keyToValue' = R.heap.keyToValue
        /\ hashmap' = R.heap.hashmap
        /\ hlast' = [op |-> "delete", arg |-> value, ret |-> NullValue,
                     expected |-> NullValue, threw |-> R.threw]
    /\ bag' = BagRemove(bag, value)
    /\ UNCHANGED <<slVars, rlVars, walk>>

HeapInsertStep == \E v \in Values : HeapInsert(v)
HeapDeleteStep == \E v \in Values : HeapDelete(v)

(***************************************************************************)
(* SkipList._randomLevel, one turn of its while loop per step, and the     *)
(* insert that called it                                                   *)
(***************************************************************************)
\* the literal 32 of the loop test
LevelCap == 32
\* the keys inserted with a drawn height
DrawnKeys == {1}

RandomLevelInit ==
    /\ rlLevel = 1
    /\ rlPc = "idle"

\* insert calls SkipList._randomLevel(): let level = 1
RandomLevelEnter ==
    /\ rlPc = "idle"
    /\ rlLevel' = 1
    /\ rlPc' = "loop"
    /\ UNCHANGED <<slVars, hVars, walk>>

\* one evaluation of the while test, with coin the truth of
\* Math.random() >= 0.5: level++ when it holds, return level otherwise
RandomLevelFlip(coin) ==
    /\ rlPc = "loop"
    /\ IF rlLevel <= LevelCap /\ coin
       THEN rlLevel' = rlLevel + 1 /\ rlPc' = "loop"
       ELSE rlLevel' = rlLevel /\ rlPc' = "done"
    /\ UNCHANGED <<slVars, hVars, walk>>

\* the rest of insert(key, data), with newLevelsCount the returned level
InsertDrawn(key, data) ==
    /\ rlPc = "done"
    /\ (stored[key] = Absent) => itemsCount + absentDeletes < MaxItems
    /\ \E R \in {insert(nodes, head, topRight, levelsCount, itemsCount,
                        key, data, rlLevel)} :
        /\ nodes' = R.nodes
        /\ head' = R.head
        /\ topRight' = R.topRight
        /\ levelsCount' = R.levelsCount
        /\ itemsCount' = R.itemsCount
        /\ last' = [op |-> "insert", key |-> key, hit |-> R.replaced,
                    grew |-> rlLevel > levelsCount]
        /\ stored' = [stored EXCEPT ![key] = data]
    /\ rlPc' = "idle"
    /\ UNCHANGED <<tail, absentDeletes, hVars, rlLevel, walk>>

RandomLevelFlipStep == \E coin \in BOOLEAN : RandomLevelFlip(coin)
InsertDrawnStep == \E k \in DrawnKeys, d \in Payloads : InsertDrawn(k, d)

(***************************************************************************)
(* The while loops of findByRank and _findPath, one turn per step          *)
(***************************************************************************)
\* no traversal is running
NoWalk == [op |-> "none", pc |-> "none", next |-> NULL, counter |-> 0,
           arg |-> 0]

WalkInit == walk = NoWalk

\* findByRank(rank) up to its while loop: rankCounter = -1, next = this.head
FindByRankEnter(rank) ==
    /\ walk = NoWalk
    /\ walk' = [op |-> "findByRank", pc |-> "loop", next |-> head,
                counter |-> -1, arg |-> rank]
    /\ UNCHANGED <<slVars, hVars, rlVars>>

\* one turn of findByRank's loop that adds the span but stays on the node
FindByRankTurn_Stay(N, w) ==
    IF ~(w.counter < w.arg) THEN [w EXCEPT !.pc = "condition"]
    ELSE IF FindByRankMove(N, w.next, w.counter, w.arg) = "right"
    THEN [w EXCEPT !.counter = w.counter + N[w.next].span]
    ELSE IF FindByRankMove(N, w.next, w.counter, w.arg) = "down"
    THEN [w EXCEPT !.next = N[w.next].down]
    ELSE [w EXCEPT !.pc = "break"]

\* one turn of findByRank's while loop: the loop test fails ("condition"),
\* or a move right, or a move down, or the break
FindByRankTurn(N, w) ==
    IF ~(w.counter < w.arg) THEN [w EXCEPT !.pc = "condition"]
    ELSE IF FindByRankMove(N, w.next, w.counter, w.arg) = "right"
    THEN [w EXCEPT !.next = N[w.next].right,
                   !.counter = w.counter + N[w.next].span]
    ELSE IF FindByRankMove(N, w.next, w.counter, w.arg) = "down"
    THEN [w EXCEPT !.next = N[w.next].down]
    ELSE [w EXCEPT !.pc = "break"]

FindByRankStep ==
    /\ walk.op = "findByRank" /\ walk.pc = "loop"
    /\ walk' = FindByRankTurn(nodes, walk)
    /\ UNCHANGED <<slVars, hVars, rlVars>>

\* _findPath(key) up to its while loop: rank = -1, next = this.head
FindPathEnter(key) ==
    /\ walk = NoWalk
    /\ walk' = [op |-> "_findPath", pc |-> "loop", next |-> head,
                counter |-> -1, arg |-> key]
    /\ UNCHANGED <<slVars, hVars, rlVars>>

\* one turn of _findPath's while loop: the loop test fails ("condition"),
\* or a move right, or a move down, or the break
FindPathTurn(N, w) ==
    IF ~IsNode(w.next) THEN [w EXCEPT !.pc = "condition"]
    ELSE IF N[N[w.next].right].key # NullKey /\ N[N[w.next].right].key < w.arg
    THEN [w EXCEPT !.next = N[w.next].right,
                   !.counter = w.counter + N[w.next].span]
    ELSE IF IsNode(N[w.next].down)
    THEN [w EXCEPT !.next = N[w.next].down]
    ELSE [w EXCEPT !.pc = "break"]

FindPathStep ==
    /\ walk.op = "_findPath" /\ walk.pc = "loop"
    /\ walk' = FindPathTurn(nodes, walk)
    /\ UNCHANGED <<slVars, hVars, rlVars>>

\* the call returns
WalkReturn ==
    /\ walk.pc \in {"condition", "break"}
    /\ walk' = NoWalk
    /\ UNCHANGED <<slVars, hVars, rlVars>>

Init == SkipListInit /\ MinHeapInit /\ RandomLevelInit /\ WalkInit

\* every sequence of insert and delete calls on the SkipList
Next == InsertStep \/ DeleteStoredStep \/ DeleteAbsentStep
Spec == Init /\ [][Next]_vars

\* sequences of insert calls and of delete calls on stored keys
NextStored == InsertStep \/ DeleteStoredStep
SpecStored == Init /\ [][NextStored]_vars

\* every sequence of insert, extractMin and delete calls on the MinHeap
HeapNext == HeapInsertStep \/ HeapExtractMin \/ HeapDeleteStep
SpecHeap == Init /\ [][HeapNext]_vars

\* every sequence of insert and delete calls, and between them traversals
\* taken one loop turn at a time; a loop that is running takes its next turn
WalkNext ==
    \/ walk = NoWalk /\ Next
    \/ \E r \in Probes : FindByRankEnter(r)
    \/ \E k \in Keys : FindPathEnter(k)
    \/ FindByRankStep
    \/ FindPathStep
    \/ WalkReturn
SpecWalk ==
    Init /\ [][WalkNext]_vars /\ WF_vars(FindByRankStep) /\ WF_vars(FindPathStep)

\* inserts whose heights are drawn by _randomLevel
RandomNext == RandomLevelEnter \/ RandomLevelFlipStep \/ InsertDrawnStep
SpecRandom == Init /\ [][RandomNext]_vars

(***************************************************************************)
(* The queries on the current list, and the reference they are held to     *)
(***************************************************************************)
Find(k) == find(nodes, head, levelsCount, k)
FindRankOfKey(k) == findRankOfKey(nodes, head, levelsCount, k)
FindByRank(r) == findByRank(nodes, head, r)

\* the ranks from 0 on among them: those of the keys, and two beyond
Ranks == 0..(MaxKey + 1)

\* "not found" as findByRank and find report it
NotFound == {NullData, Undefined}

StoredKeys == {k \in Keys : stored[k] # Absent}
NumStored == Cardinality(StoredKeys)
\* the number of stored keys strictly smaller than k
RankIn(k) == Cardinality({j \in StoredKeys : j < k})
\* the key of 0-based rank r among the stored keys
KeyAt(r) == CHOOSE k \in StoredKeys : RankIn(k) = r

\* C1: under inserts and deletes of stored keys, findRankOfKey(k) is the
\* number of stored keys smaller than k for a stored k, and null otherwise
C1_RankOfKey ==
    \A k \in Keys :
        FindRankOfKey(k) = IF k \in StoredKeys THEN RankVal(RankIn(k))
                           ELSE NullRank

\* C1 witness: a delete of a stored key has left two keys, one of them in a tower of
\* height 2, and the greater one has rank 1
C1_Witness ==
    /\ last.op = "delete" /\ last.hit
    /\ NumStored = 2
    /\ \E k \in StoredKeys : nodes[nodes[head].right].key = k
    /\ \E k \in StoredKeys : FindRankOfKey(k) = RankVal(1)

\* C2: find(k) is the payload of the latest insert(k, .) not followed by a
\* delete(k), and null otherwise, whatever calls were made
C2_FindIsMap ==
    \A k \in Keys :
        Find(k) = IF stored[k] = Absent THEN NullData ELSE stored[k]

\* C2 witness: after a delete of a key that was not stored, one key holds
\* "a", another "b", and a third is not stored
C2_Witness ==
    /\ last.op = "delete" /\ ~last.hit
    /\ \E j, k \in Keys : Find(j) = "a" /\ Find(k) = "b"
    /\ \E k \in Keys : Find(k) = NullData

\* C3: under inserts and deletes of stored keys, findByRank(r) for
\* 0 <= r < n is the payload of the r-th smallest stored key
C3_ByRank ==
    \A r \in 0..(NumStored - 1) : FindByRank(r) = stored[KeyAt(r)]

\* C3 witness: three keys are stored, in towers of different heights, with
\* payloads that tell the ranks apart
C3_Witness ==
    /\ NumStored = 3
    /\ levelsCount >= 2
    /\ nodes[nodes[head].right].key # NullKey
    /\ FindByRank(0) # FindByRank(1)
    /\ FindByRank(1) # FindByRank(2)

\* the results of every query, findByRank for the ranks in P, as one value
Answers(N, hd, lc, P) ==
    [f |-> [k \in Keys |-> find(N, hd, lc, k)],
     r |-> [k \in Keys |-> findRankOfKey(N, hd, lc, k)],
     b |-> [r \in P |-> findByRank(N, hd, r)]]

\* C4: delete(a) of a key a that is not stored changes the result of no
\* find, findRankOfKey or findByRank call
C4_DeleteAbsentNoOp ==
    [][(last'.op = "delete" /\ ~last'.hit)
        => Answers(nodes', head', levelsCount', Probes)
           = Answers(nodes, head, levelsCount, Probes)]_vars

\* C5: findByRank(r) reports "not found" for every negative r
C5_NegativeRank ==
    \A r \in (-MaxNegative)..(-1) : FindByRank(r) \in NotFound

\* C6: under inserts and deletes of stored keys, findByRank(r) reports
\* "not found" for every r >= n, n the number of stored keys
C6_RankTooLarge ==
    \A r \in NumStored..(MaxKey + 1) : FindByRank(r) \in NotFound

\* C6 witness: keys are stored and itemsCount exceeds their number because
\* of earlier deletes
C6_Witness ==
    /\ NumStored >= 1
    /\ itemsCount > NumStored
    /\ levelsCount >= 2
    /\ FindByRank(NumStored - 1) \in Payloads

\* the nodes with key k on the level whose head is h
RECURSIVE NodesWithKey(_, _, _)
NodesWithKey(N, n, k) ==
    IF ~IsNode(n) THEN {}
    ELSE (IF N[n].key = k THEN {n} ELSE {})
         \cup NodesWithKey(N, N[n].right, k)

\* the heads of all levels, top first
RECURSIVE Heads(_, _)
Heads(N, h) == IF ~IsNode(h) THEN <<>> ELSE <<h>> \o Heads(N, N[h].down)

\* for each level, top first, the number of nodes with key k
KeyCounts(N, hd, k) ==
    Bind(Heads(N, hd), LAMBDA hs :
         [i \in 1..Len(hs) |-> Cardinality(NodesWithKey(N, hs[i], k))])

C8_DeleteShrinksRanks ==
    [][(last'.op = "delete" /\ stored[last'.key] # Absent) =>
        \E k \in {last'.key} :
        \E before \in {Answers(nodes, head, levelsCount, {})} :
        \E after \in {Answers(nodes', head', levelsCount', {})} :
            /\ after.f[k] = NullData
            /\ after.r[k] = NullRank
            /\ \A j \in StoredKeys :
                 /\ j > k => after.r[j] = RankVal(before.r[j].rank - 1)
                 /\ j < k => after.r[j] = before.r[j]]_vars

\* C9: for every stored key k, findByRank(findRankOfKey(k)) is find(k),
\* whatever calls were made
C9_RoundTrip ==
    \A k \in StoredKeys :
        /\ ~FindRankOfKey(k).isNull
        /\ FindByRank(FindRankOfKey(k).rank) = Find(k)

\* the multiset of the values in the array
BagOf(ktv) ==
    [v \in Values |-> Cardinality({i \in 1..Len(ktv) : ktv[i] = v})]

\* C10: the heap holds the multiset of the values inserted and not yet
\* removed; getMin() is its smallest value (null when it is empty);
\* extractMin() returns that value and removes one occurrence of it
C10_MinPriority ==
    /\ BagOf(keyToValue) = bag
    /\ getMin(Heap) = BagMinOrNull(bag)
    /\ hlast.op = "extractMin" => hlast.ret = hlast.expected

\* C10 witness: extractMin returned a value of which another occurrence is
\* still in the heap, together with a greater value
C10_Witness ==
    /\ hlast.op = "extractMin"
    /\ hlast.ret \in Values
    /\ bag[hlast.ret] >= 1
    /\ \E v \in Values : v > hlast.ret /\ bag[v] >= 1
    /\ Len(keyToValue) = 3

(***************************************************************************)
(* The shape of the list: levels, edges and spans                          *)
(***************************************************************************)
\* the nodes of a level from node n on, following right, sentinels included
RECURSIVE LevelNodes(_, _)
LevelNodes(N, n) ==
    IF ~IsNode(n) THEN <<>> ELSE <<n>> \o LevelNodes(N, N[n].right)

\* the levels of the list, top first, each as the sequence of its nodes
Levels(N, hd) ==
    Bind(Heads(N, hd), LAMBDA hs : [i \in 1..Len(hs) |-> LevelNodes(N, hs[i])])

\* the keys of the keyed nodes of a level
LevelKeys(N, lvl) == {N[lvl[j]].key : j \in 1..Len(lvl)} \ {NullKey}

\* the sum of the spans of the nodes in the set S
RECURSIVE SumSpans(_, _)
SumSpans(N, S) ==
    IF S = {} THEN 0
    ELSE LET n == CHOOSE x \in S : TRUE
         IN  N[n].span + SumSpans(N, S \ {n})

\* node n has a right neighbour that is a keyed node
HasKeyedRight(N, n) == IsNode(N[n].right) /\ N[N[n].right].key # NullKey

\* the nodes of the level lvl that are not its tail and whose key is at
\* least lo (a head counts as below every key) and less than hi
Covered(N, lvl, lo, hi) ==
    {lvl[j] : j \in {j \in 1..Len(lvl) :
                        /\ IsNode(N[lvl[j]].right)
                        /\ N[lvl[j]].key >= lo
                        /\ N[lvl[j]].key < hi}}

\* C11: under inserts and deletes of stored keys, at every level every node
\* whose right neighbour is a keyed node has span equal to the number of
\* level-0 keys greater than its key (all keys, for a head) and at most
\* the right neighbour's key; and above level 0 that span is the sum of the
\* spans of the edges of the level below that it covers
C11_SpanExact ==
    \E L \in {Levels(nodes, head)} :
    \E keys0 \in {LevelKeys(nodes, L[Len(L)])} :
        \A i \in 1..Len(L) : \A j \in 1..Len(L[i]) :
            \E n \in {L[i][j]} :
                HasKeyedRight(nodes, n) =>
                    \E lo \in {nodes[n].key} :
                    \E hi \in {nodes[nodes[n].right].key} :
                        /\ nodes[n].span
                             = Cardinality({k \in keys0 : k > lo /\ k <= hi})
                        /\ i < Len(L) =>
                             nodes[n].span
                               = SumSpans(nodes,
                                          Covered(nodes, L[i + 1], lo, hi))

\* C11 witness: after a delete of a stored key, an edge above level 0 to a
\* keyed node covers two level-0 keys, while itemsCount is above the number
\* of stored keys
C11_Witness ==
    /\ last.op = "delete" /\ last.hit
    /\ itemsCount > NumStored
    /\ \E n \in DOMAIN nodes :
        /\ n[2] >= 1
        /\ HasKeyedRight(nodes, n)
        /\ nodes[n].span = 2

\* for each level, top first, the sum of the spans of all its nodes
LevelSums(N, hd) ==
    Bind(Levels(N, hd), LAMBDA L :
         [i \in 1..Len(L) |->
             SumSpans(N, {L[i][j] : j \in 1..Len(L[i])})])

\* C12 as stated: under inserts and deletes of stored keys, the spans of
\* every level sum to the number of stored keys
C12_SpanSum ==
    \E sums \in {LevelSums(nodes, head)} :
        \A i \in 1..Len(sums) : sums[i] = NumStored

\* C12 amended: under inserts and deletes of stored keys, the spans of
\* level 0 sum to the number of stored keys plus 1 (the edge to the tail
\* counts 1), and the spans of every level sum to at least that and to at
\* most itemsCount + 1
C12_SpanSumPlusOne ==
    \E sums \in {LevelSums(nodes, head)} :
        /\ sums[Len(sums)] = NumStored + 1
        /\ \A i \in 1..Len(sums) :
               sums[i] >= NumStored + 1 /\ sums[i] <= itemsCount + 1

\* C12 witness: keys are stored in a list of two levels whose upper level
\* was added after a delete, so that its spans sum to more than those of
\* level 0
C12_Witness ==
    /\ NumStored >= 1
    /\ levelsCount = 2
    /\ nodes[nodes[head].right].key # NullKey
    /\ \E sums \in {LevelSums(nodes, head)} : sums[1] > sums[2]

\* C13: whatever calls were made, every level runs from its head through
\* keyed nodes of strictly increasing keys to its own tail sentinel; level 0
\* holds exactly the stored keys, each once, and every higher level holds a
\* subset of them
C13_SortedUnique ==
    \E L \in {Levels(nodes, head)} :
    \E T \in {Heads(nodes, topRight)} :
        /\ Len(L) = Len(T)
        /\ T[Len(T)] = tail
        /\ \A i \in 1..Len(L) :
            \E lvl \in {L[i]} :
                /\ Len(lvl) >= 2
                /\ nodes[lvl[1]].key = NullKey
                /\ lvl[Len(lvl)] = T[i]
                /\ nodes[T[i]].key = NullKey
                /\ \A j \in 2..(Len(lvl) - 1) : nodes[lvl[j]].key \in Keys
                /\ \A j \in 2..(Len(lvl) - 2) :
                       nodes[lvl[j]].key < nodes[lvl[j + 1]].key
                /\ LevelKeys(nodes, lvl) \subseteq StoredKeys
        /\ LevelKeys(nodes, L[Len(L)]) = StoredKeys
        /\ Len(L[Len(L)]) = NumStored + 2

\* C13 witness: after a delete of a key that is not stored, two keys are
\* stored and the upper of two levels holds exactly one of them
C13_Witness ==
    /\ last.op = "delete" /\ ~last.hit
    /\ NumStored = 2
    /\ levelsCount = 2
    /\ Len(LevelNodes(nodes, head)) = 3

\* C14: whatever calls were made, the down link of every keyed node above
\* level 0 points to the node with the same key on the level below (so a
\* tower reaches down to level 0 without a gap), a level-0 node has no down
\* link, and after delete(k) of a stored key no node with key k is left
\* reachable
C14_TowerContiguity ==
    \E L \in {Levels(nodes, head)} :
        /\ \A i \in 1..Len(L) : \A j \in 2..(Len(L[i]) - 1) :
            \E n \in {L[i][j]} :
                IF i = Len(L) THEN nodes[n].down = NULL
                ELSE /\ \E m \in 2..(Len(L[i + 1]) - 1) :
                            nodes[n].down = L[i + 1][m]
                     /\ nodes[nodes[n].down].key = nodes[n].key
        /\ (last.op = "delete" /\ last.hit)
              => \A n \in DOMAIN nodes : nodes[n].key # last.key

\* C14 witness: a delete of a stored key has left a list of two levels in
\* which one key has a tower of height 2 and another a tower of height 1
C14_Witness ==
    /\ last.op = "delete" /\ last.hit
    /\ levelsCount = 2
    /\ NumStored = 2
    /\ Len(LevelNodes(nodes, head)) = 3
    /\ nodes[nodes[nodes[head].right].down].key \in StoredKeys

\* C15: the level returned by _randomLevel is at least 1 and at most 32
\* whatever the coin flips were, and levelsCount never exceeds 32
C15_HeightCap ==
    /\ rlPc = "done" => (rlLevel >= 1 /\ rlLevel <= 32)
    /\ levelsCount <= 32

\* C16: whatever calls were made, deletes of keys that are not stored and
\* deletes on the empty list included, the span of every node is at least
\* 0 and the span of every tail sentinel is 0
C16_SpanSign ==
    /\ \A n \in DOMAIN nodes : nodes[n].span >= 0
    /\ \E T \in {Heads(nodes, topRight)} :
           \A i \in 1..Len(T) : nodes[T[i]].span = 0

\* _findInsertPath(key) on the current list
FindInsertPath(key) == _findInsertPath(nodes, head, levelsCount, key)

\* the rightmost node of the level lvl whose key is less than key, the
\* level's head if there is none
Approach(N, lvl, key) ==
    LET js == {j \in 1..(Len(lvl) - 1) : j = 1 \/ N[lvl[j]].key < key}
    IN  lvl[CHOOSE j \in js : \A m \in js : m <= j]

\* C17: under inserts and deletes of stored keys, for every target key
\* _findInsertPath gives one entry for each level, top level first, and the
\* entry of a level holds the rightmost node of that level with a key less
\* than the target (the head if there is none) and that node's rank: the
\* number of stored keys smaller than its key, -1 for a head
C17_ApproachPoints ==
    \E L \in {Levels(nodes, head)} :
        /\ Len(L) = levelsCount
        /\ \A key \in Keys :
            \E ip \in {FindInsertPath(key)} :
                /\ Len(ip) = levelsCount
                /\ \A i \in 1..Len(ip) :
                    /\ ip[i] # Hole
                    /\ ip[i].level = levelsCount - i
                    /\ ip[i].node = Approach(nodes, L[i], key)
                    /\ ip[i].rank
                         = IF nodes[ip[i].node].key = NullKey THEN -1
                           ELSE RankIn(nodes[ip[i].node].key)

\* C17 witness: three keys are stored on two levels and, for some target,
\* the approach point of the upper level is a keyed node and the approach
\* point of level 0 is a node further right
C17_Witness ==
    /\ NumStored = 3
    /\ levelsCount = 2
    /\ \E key \in Keys :
        \E ip \in {FindInsertPath(key)} :
            /\ Len(ip) = 2
            /\ ip[1].rank >= 0
            /\ ip[2].rank > ip[1].rank

\* the number of head sentinels on the down chain that starts at hd
HeadCount(N, hd) == Len(Heads(N, hd))

\* C18: levelsCount never decreases; delete leaves it unchanged; after
\* insert, of a new key or of a stored one, it is the greater of its
\* previous value and the height drawn for that insert; and it is always
\* the number of head sentinels on the down chain from head
C18_LevelsMonotone ==
    /\ HeadCount(nodes, head) = levelsCount
    /\ [][/\ levelsCount' >= levelsCount
          /\ last'.op = "delete" => levelsCount' = levelsCount
          /\ last'.op = "insert" =>
               \A h \in 1..MaxLevel :
                   Insert(last'.key, stored'[last'.key], h) =>
                       levelsCount' = IF h > levelsCount THEN h
                                      ELSE levelsCount
          /\ HeadCount(nodes', head') = levelsCount']_vars

\* C18 witness: a delete has emptied a list that has more than one level
C18_Witness ==
    /\ last.op = "delete" /\ last.hit
    /\ NumStored = 0
    /\ levelsCount = MaxLevel
    /\ HeadCount(nodes, head) = MaxLevel

\* C19: whatever calls were made, deletes of keys that are not stored
\* included, the loop of findByRank (any rank) and the loop of _findPath,
\* with which find, findRankOfKey, insert and delete traverse the list, end
\* after finitely many moves: by the loop test or by the break taken when
\* no move right or down is possible
C19_Termination ==
    (walk.pc = "loop") ~> (walk.pc \in {"condition", "break"})

\* C19 witness: in a list of two levels whose spans have drifted after a
\* delete of a key that is not stored, the loop of findByRank for a rank
\* of a stored key has ended by its break
C19_Witness ==
    /\ walk.op = "findByRank" /\ walk.pc = "break"
    /\ walk.arg \in 0..(NumStored - 1)
    /\ absentDeletes >= 1
    /\ levelsCount = 2

\* keyToValue[parent] <= keyToValue[child] for every index but the root
HeapOrdered(ktv) ==
    \A i \in 1..(Len(ktv) - 1) : ktv[((i - 1) \div 2) + 1] <= ktv[i + 1]

\* C20: delete(value) on a heap that holds value removes one occurrence of
\* it, keeps every other occurrence and value, and leaves the heap ordered;
\* on a heap that does not hold value, removed before or never inserted, it
\* raises no error and leaves keyToValue and valueToKeys unchanged
C20_Delete ==
    [][hlast'.op = "delete" =>
          IF bag[hlast'.arg] > 0
          THEN /\ ~hlast'.threw
               /\ BagOf(keyToValue') = [bag EXCEPT ![hlast'.arg] = @ - 1]
               /\ HeapOrdered(keyToValue')
          ELSE /\ ~hlast'.threw
               /\ keyToValue' = keyToValue
               /\ hashmap' = hashmap]_vars

\* the keys that valueToKeys records for the value v
KeysOfValue(hm, v) ==
    IF v \in DOMAIN hm THEN {hm[v][j] : j \in 1..Len(hm[v])} ELSE {}

\* the array indices that hold the value v
IndicesOfValue(ktv, v) == {i \in 0..(Len(ktv) - 1) : ktv[i + 1] = v}

\* C21: after any sequence of insert, extractMin and delete calls, for
\* every value v the keys that valueToKeys records for v are exactly the
\* array indices i with keyToValue[i] = v, no other value has a key
\* recorded, and keyToValue[floor((i - 1) / 2)] <= keyToValue[i] for every
\* index i >= 1
C21_IndexConsistency ==
    /\ \A v \in Values :
           KeysOfValue(hashmap, v) = IndicesOfValue(keyToValue, v)
    /\ \A v \in DOMAIN hashmap : v \in Values
    /\ HeapOrdered(keyToValue)

\* C21 witness: a delete of a value has left a heap of at least two
\* values that all equal the deleted one, so that the delete worked on
\* equal values only
C21_Witness ==
    /\ hlast.op = "delete" /\ ~hlast.threw
    /\ Len(keyToValue) >= 2
    /\ \A i \in 1..Len(keyToValue) : keyToValue[i] = hlast.arg
    /\ KeysOfValue(hashmap, hlast.arg) = 0..(Len(keyToValue) - 1)
=============================================================================
